---------------------------- MODULE Spec2Model ----------------------------
(***************************************************************************)
(* Model of the residual kernel of src/src/main.rs and of the construction *)
(* of the fff scalar of src/src/fast.rs.                                   *)
(*                                                                         *)
(* Scalars are modelled exactly (integers, and a reduced fraction for the  *)
(* final division).  usize values are modelled by signed representatives:  *)
(* a representative v < 0 stands for the wrapped value 2^64 + v, which is  *)
(* exact for +, - and * as long as magnitudes stay far below 2^63.         *)
(* Buffer indices are zero-based as in the source; buffer x is the TLA+    *)
(* sequence x with x[k+1] holding the element of index k.                  *)
(***************************************************************************)
EXTENDS Integers, Sequences, FiniteSets, TLC

VARIABLES build, l, made, x, b, kl, entry, pc, r2, i, outer_base, terms,
          result, called, first, held, fres

vars == <<build, l, made, x, b, kl, entry, pc, r2, i, outer_base, terms,
          result, called, first, held, fres>>

kvars == <<l, made, x, b, kl, entry, pc, r2, i, outer_base, terms, result,
           called, first>>

fvars == <<held, fres>>

\* Largest grid extent tried along each axis.
MaxDim == 3

\* Largest number of fff values kept alive at once.
MaxHeld == 3

Builds == {"debug", "release"}

-----------------------------------------------------------------------------
(* Scalar helpers *)

square(v) == v * v

RECURSIVE Gcd(_, _)
Gcd(p, q) == IF q = 0 THEN p ELSE Gcd(q, p % q)

Abs(v) == IF v < 0 THEN -v ELSE v

\* Exact quotient p / q of two integers, q > 0, as a reduced fraction.
Frac(p, q) ==
  LET g == Gcd(Abs(p), q)
  IN  [num |-> p \div g, den |-> q \div g]

-----------------------------------------------------------------------------
(* Laplace2dMatrix *)

\* rectangular with the two off-diagonal coefficients taken from the wrong
\* axis.
rectangularSwapped(n_x, n_y) ==
  [ n_x       |-> n_x,
    n_y       |-> n_y,
    n         |-> n_x * n_y,
    diag      |-> (-2) * (square(n_x + 1) + square(n_y + 1)),
    tri_diag  |-> square(n_y + 1),
    side_diag |-> square(n_x + 1) ]

rectangular(n_x, n_y) ==
  [ n_x       |-> n_x,
    n_y       |-> n_y,
    n         |-> n_x * n_y,
    diag      |-> (-2) * (square(n_x + 1) + square(n_y + 1)),
    tri_diag  |-> square(n_x + 1),
    side_diag |-> square(n_y + 1) ]

quadratic(n_xy) == rectangular(n_xy, n_xy)

NoMatrix == [n_x |-> 0, n_y |-> 0, n |-> 0, diag |-> 0, tri_diag |-> 0,
             side_diag |-> 0]

-----------------------------------------------------------------------------
(* usize arithmetic and the unchecked accessor *)

RECURSIVE ChainSum(_, _)
\* The sum of the first k operands of an index expression a + b - c ...,
\* evaluated left to right; ch holds the signed operands.
ChainSum(ch, k) == IF k = 0 THEN 0 ELSE ChainSum(ch, k - 1) + ch[k]

ChainVal(ch) == ChainSum(ch, Len(ch))

\* Some intermediate result leaves the usize range: the debug build panics
\* there ("attempt to subtract with overflow"), the release build wraps.
ChainOvf(ch) == \E k \in 1..Len(ch) : ChainSum(ch, k) < 0

\* Unsigned comparison of two representatives.
ULt(u, v) ==
  IF (u < 0) = (v < 0) THEN u < v ELSE v < 0

Buf(arr) == IF arr = "x" THEN x ELSE b

\* Arr::index: get_unchecked(idx), no bounds check.
InBounds(arr, idx) == idx >= 0 /\ idx < Len(Buf(arr))

Index(arr, idx) == Buf(arr)[idx + 1]

\* What evaluating one access does: "overflow" (debug panic while computing
\* the index), "oob" (the unchecked read leaves the slice) or "ok".
AccState(a) ==
  IF build = "debug" /\ ChainOvf(a.ch) THEN "overflow"
  ELSE IF InBounds(a.arr, ChainVal(a.ch)) THEN "ok"
  ELSE "oob"

\* Outcomes of undefined behaviour: the process dies, or the call returns
\* some number unrelated to the inputs.
Garbage == {0, 1}

UBOutcomes == {[kind |-> "crash"]} \cup
              {[kind |-> "value", num |-> g, den |-> 1] : g \in Garbage}

Panic(why) == [kind |-> "panic", why |-> why]

NoResult == [kind |-> "none"]

-----------------------------------------------------------------------------
(* The accesses of each accumulated term, in evaluation order.  coef is the *)
(* factor the element is multiplied by (-1 for the b element).              *)

Acc(arr, ch, coef) == [arr |-> arr, ch |-> ch, coef |-> coef]

\* line 84: first element of the first row
Acc84 ==
  << Acc("b", <<1, -1>>, -1),
     Acc("x", <<1, -1>>, kl.diag),
     Acc("x", <<2, -1>>, kl.tri_diag),
     Acc("x", <<1, kl.n_x, -1>>, kl.side_diag) >>

\* line 86: interior of the first row
Acc86(ii) ==
  << Acc("b", <<ii, -1>>, -1),
     Acc("x", <<ii, -1>>, kl.diag),
     Acc("x", <<ii, 1, -1>>, kl.tri_diag),
     Acc("x", <<ii, -1, -1>>, kl.tri_diag),
     Acc("x", <<ii, kl.n_x, -1>>, kl.side_diag) >>

\* line 88: last element of the first row
Acc88 ==
  << Acc("b", <<kl.n_x, -1>>, -1),
     Acc("x", <<kl.n_x, -1>>, kl.diag),
     Acc("x", <<kl.n_x, -1, -1>>, kl.tri_diag),
     Acc("x", <<kl.n_x, kl.n_x, -1>>, kl.side_diag) >>

\* line 91: first element of an interior row
Acc91(ob) ==
  << Acc("b", <<ob, 1, -1>>, -1),
     Acc("x", <<ob, 1, -1>>, kl.diag),
     Acc("x", <<ob, 2, -1>>, kl.tri_diag),
     Acc("x", <<ob, 1, -kl.n_x, -1>>, kl.side_diag),
     Acc("x", <<ob, 1, kl.n_x, -1>>, kl.side_diag) >>

\* line 93: interior of an interior row
Acc93(ob, ii) ==
  << Acc("b", <<ob, ii, -1>>, -1),
     Acc("x", <<ob, ii, -1>>, kl.diag),
     Acc("x", <<ob, ii, 1, -1>>, kl.tri_diag),
     Acc("x", <<ob, ii, -1, -1>>, kl.tri_diag),
     Acc("x", <<ob, ii, kl.n_x, -1>>, kl.side_diag),
     Acc("x", <<ob, ii, -kl.n_x, -1>>, kl.side_diag) >>

\* line 95 with the upper neighbour taken one element too far right.
Acc95Shifted(ob) ==
  << Acc("b", <<ob, kl.n_x, -1>>, -1),
     Acc("x", <<ob, kl.n_x, -1>>, kl.diag),
     Acc("x", <<ob, kl.n_x, -1, -1>>, kl.tri_diag),
     Acc("x", <<ob, kl.n_x, kl.n_x, -1>>, kl.side_diag),
     Acc("x", <<ob>>, kl.side_diag) >>

\* line 95: last element of an interior row
Acc95(ob) ==
  << Acc("b", <<ob, kl.n_x, -1>>, -1),
     Acc("x", <<ob, kl.n_x, -1>>, kl.diag),
     Acc("x", <<ob, kl.n_x, -1, -1>>, kl.tri_diag),
     Acc("x", <<ob, kl.n_x, kl.n_x, -1>>, kl.side_diag),
     Acc("x", <<ob, -1>>, kl.side_diag) >>

\* line 98: first element of the last row
Acc98 ==
  << Acc("b", <<kl.n, -kl.n_x, 1, -1>>, -1),
     Acc("x", <<kl.n, -kl.n_x, 1, -1>>, kl.diag),
     Acc("x", <<kl.n, -kl.n_x, 2, -1>>, kl.tri_diag),
     Acc("x", <<kl.n, -kl.n_x, -kl.n_x, 1, -1>>, kl.side_diag) >>

\* line 100: interior of the last row
Acc100(ii) ==
  << Acc("b", <<ii, -1>>, -1),
     Acc("x", <<ii, -1>>, kl.diag),
     Acc("x", <<ii, 1, -1>>, kl.tri_diag),
     Acc("x", <<ii, -1, -1>>, kl.tri_diag),
     Acc("x", <<ii, -kl.n_x, -1>>, kl.side_diag) >>

\* line 102: last element of the last row
Acc102 ==
  << Acc("b", <<kl.n, -1>>, -1),
     Acc("x", <<kl.n, -1>>, kl.diag),
     Acc("x", <<kl.n, -1, -1>>, kl.tri_diag),
     Acc("x", <<kl.n, -kl.n_x, -1>>, kl.side_diag) >>

-----------------------------------------------------------------------------
(* Caller-side inputs: the buffers the driver and the benches build. *)

Const(len, c) == [k \in 1..len |-> c]

Ramp(len) == [k \in 1..len |-> k]

OneHot(len, p) == [k \in 1..len |-> IF k = p THEN 1 ELSE 0]

XBufs(len) == {Const(len, 0), Const(len, 1), Ramp(len)} \cup
              {OneHot(len, p) : p \in 1..len}

BConsts == {0, 2, -3}

BBufs(len) == {Const(len, c) : c \in BConsts} \cup
              {[k \in 1..len |-> 2 * k - 1]} \cup
              {OneHot(len, p) : p \in 1..len}

\* Lengths around the grid size: the matching one and both neighbours.
Near(m) == {m - 1, m, m + 1} \cap Nat

-----------------------------------------------------------------------------
(* State machine *)

Terminal == {"done", "panic", "ub"}

Init ==
  /\ build \in Builds
  /\ l = NoMatrix
  /\ made = [by |-> "none", a |-> 0, c |-> 0]
  /\ x = <<>>
  /\ b = <<>>
  /\ kl = NoMatrix
  /\ entry = "none"
  /\ pc = "start"
  /\ r2 = 0
  /\ i = 0
  /\ outer_base = 0
  /\ terms = <<>>
  /\ result = NoResult
  /\ called = {}
  /\ first = NoResult
  /\ held = <<>>
  /\ fres = "ok"

Makers == {"rectangular", "quadratic", "literal"}

\* The records a caller can obtain for an nx by ny grid: from a constructor,
\* or as a struct literal whose n is off by one.
Make(by, nx, ny) ==
  IF by = "rectangular" THEN {rectangular(nx, ny)}
  ELSE IF by = "quadratic" THEN {quadratic(nx)}
  ELSE {[rectangular(nx, ny) EXCEPT !.n = m] : m \in Near(nx * ny) \ {nx * ny}}

\* The caller builds a matrix record and two buffers (main, b1, b2).  The
\* fields of Laplace2dMatrix are public, so n may also be set by hand.
Setup ==
  /\ pc = "start"
  /\ \E nx \in 0..MaxDim, ny \in 0..MaxDim :
       /\ \E by \in Makers :
            /\ by = "quadratic" => nx = ny
            /\ made' = [by |-> by, a |-> nx, c |-> ny]
            /\ l' \in Make(by, nx, ny)
       /\ \E lx \in Near(nx * ny), lb \in Near(nx * ny) :
            /\ x' \in XBufs(lx)
            /\ b' \in BBufs(lb)
  /\ pc' = "ready"
  /\ UNCHANGED <<build, kl, entry, r2, i, outer_base, terms, result, called,
                 first, fvars>>

\* calculate_residual_squared(&l, &x, &b)
CallGeneral ==
  /\ pc = "ready"
  /\ "general" \notin called
  /\ kl' = l
  /\ entry' = "general"
  /\ pc' = "asserts"
  /\ UNCHANGED <<build, l, made, x, b, r2, i, outer_base, terms, result, called,
                 first, fvars>>

\* calculate_residual_squared_quadratic(l.n_x, &x, &b)
CallQuadratic ==
  /\ pc = "ready"
  /\ "quadratic" \notin called
  /\ kl' = quadratic(l.n_x)
  /\ entry' = "quadratic"
  /\ pc' = "asserts"
  /\ UNCHANGED <<build, l, made, x, b, r2, i, outer_base, terms, result, called,
                 first, fvars>>

\* The assertions without the check that the grid is not empty.
PreconditionsNoPositive ==
  /\ kl.n = Len(x)
  /\ kl.n = Len(b)
  /\ kl.n = kl.n_x * kl.n_y

\* The four assertions, in source order; the first that fails panics.
Preconditions ==
  /\ kl.n = Len(x)
  /\ kl.n = Len(b)
  /\ kl.n = kl.n_x * kl.n_y
  /\ kl.n > 0

Asserts ==
  /\ pc = "asserts"
  /\ IF Preconditions
       THEN /\ pc' = "L84"
            /\ result' = result
       ELSE /\ pc' = "panic"
            /\ result' = Panic("assert")
  /\ r2' = 0
  /\ UNCHANGED <<build, l, made, x, b, kl, entry, i, outer_base, terms, called,
                 first, fvars>>

\* The index of the first access that does not succeed, 0 when all do.
FirstBad(accs) ==
  IF \A k \in 1..Len(accs) : AccState(accs[k]) = "ok" THEN 0
  ELSE CHOOSE k \in 1..Len(accs) :
         /\ AccState(accs[k]) # "ok"
         /\ \A j \in 1..(k - 1) : AccState(accs[j]) = "ok"

RECURSIVE TermSum(_, _)
\* -b[..] + x[..]*c1 + x[..]*c2 + ... over the first k accesses
TermSum(accs, k) ==
  IF k = 0 THEN 0
  ELSE TermSum(accs, k - 1)
         + accs[k].coef * Index(accs[k].arr, ChainVal(accs[k].ch))

\* The reads a term performed, as <<array, index>> pairs.
Reads(accs, k) ==
  [j \in 1..k |-> [arr |-> accs[j].arr, idx |-> ChainVal(accs[j].ch)]]

\* The log entry of a term: the source line and the reads performed.
Logged(accs, k) == [line |-> pc, reads |-> Reads(accs, k)]

\* r2 += square(term): all accesses succeed and the square is added, or the
\* first failing access ends the call (debug overflow panic, or an
\* out-of-bounds unchecked read, which is undefined behaviour).
Accumulate(accs, goto, ni, nob) ==
  LET k  == FirstBad(accs)
      st == IF k = 0 THEN "ok" ELSE AccState(accs[k])
  IN  /\ IF st = "ok"
           THEN /\ terms' = Append(terms, Logged(accs, Len(accs)))
                /\ r2' = r2 + square(TermSum(accs, Len(accs)))
                /\ pc' = goto
                /\ i' = ni
                /\ outer_base' = nob
                /\ result' = result
           ELSE IF st = "overflow"
           THEN /\ terms' = Append(terms, Logged(accs, k - 1))
                /\ pc' = "panic"
                /\ result' = Panic("overflow")
                /\ UNCHANGED <<r2, i, outer_base>>
           ELSE /\ terms' = Append(terms, Logged(accs, k))
                /\ pc' = "ub"
                /\ result' \in UBOutcomes
                /\ UNCHANGED <<r2, i, outer_base>>
      /\ UNCHANGED <<build, l, made, x, b, kl, entry, called, first, fvars>>

\* for i in 2 .. l.n_x: the loop runs its body at ii, or is left for `after`
Loop2(ii, body, after) == IF ULt(ii, kl.n_x) THEN body ELSE after

FirstRowFirst ==
  /\ pc = "L84"
  /\ Accumulate(Acc84, Loop2(2, "L86", "L88"), 2, outer_base)

FirstRowInterior ==
  /\ pc = "L86"
  /\ Accumulate(Acc86(i), Loop2(i + 1, "L86", "L88"), i + 1, outer_base)

FirstRowLast ==
  /\ pc = "L88"
  /\ Accumulate(Acc88, "L90", i, outer_base)

\* l.n_x*(l.n_y-2) + 1, the end of the range of line 90
OuterEnd == kl.n_x * (kl.n_y - 2) + 1

OuterOvf == kl.n_y - 2 < 0 \/ kl.n_x * (kl.n_y - 2) < 0

\* the range of line 90 continues at ob, or is left for the last row
LoopOuter(ob) == IF ULt(ob, OuterEnd) THEN "L91" ELSE "L98"

\* (l.n_x .. l.n_x*(l.n_y-2) + 1).step_by(l.n_x): the range is built once
InteriorRowsEnter ==
  /\ pc = "L90"
  /\ IF (build = "debug" /\ OuterOvf) \/ kl.n_x = 0
       THEN /\ pc' = "panic"
            /\ result' = Panic("overflow")
            /\ UNCHANGED outer_base
       ELSE /\ pc' = LoopOuter(kl.n_x)
            /\ outer_base' = kl.n_x
            /\ result' = result
  /\ UNCHANGED <<build, l, made, x, b, kl, entry, r2, i, terms, called, first,
                 fvars>>

InteriorRowFirst ==
  /\ pc = "L91"
  /\ Accumulate(Acc91(outer_base), Loop2(2, "L93", "L95"), 2, outer_base)

InteriorRowInterior ==
  /\ pc = "L93"
  /\ Accumulate(Acc93(outer_base, i), Loop2(i + 1, "L93", "L95"), i + 1,
                outer_base)

InteriorRowLast ==
  /\ pc = "L95"
  /\ Accumulate(Acc95(outer_base), LoopOuter(outer_base + kl.n_x), i,
                outer_base + kl.n_x)

\* for i in l.n-l.n_x+2 .. l.n
LastStart == kl.n - kl.n_x + 2

LoopLast(ii) == IF ULt(ii, kl.n) THEN "L100" ELSE "L102"

LastRowFirst ==
  /\ pc = "L98"
  /\ Accumulate(Acc98, LoopLast(LastStart), LastStart, outer_base)

LastRowInterior ==
  /\ pc = "L100"
  /\ Accumulate(Acc100(i), LoopLast(i + 1), i + 1, outer_base)

LastRowLast ==
  /\ pc = "L102"
  /\ Accumulate(Acc102, "L105", i, outer_base)

\* the count the accumulated sum is divided by
Divisor == kl.n

\* r2 / fff(l.n as f64)
Divide ==
  /\ pc = "L105"
  /\ result' = [kind |-> "value"] @@ Frac(r2, Divisor)
  /\ pc' = "done"
  /\ UNCHANGED <<build, l, made, x, b, kl, entry, r2, i, outer_base, terms, called,
                 first, fvars>>

\* The same inputs are handed to the other entry point (b1 and b2 run both
\* entry points on equal inputs); the first outcome is kept for comparison.
Again ==
  /\ pc \in Terminal
  /\ called = {}
  /\ called' = {entry}
  /\ first' = result
  /\ pc' = "ready"
  /\ r2' = 0
  /\ i' = 0
  /\ outer_base' = 0
  /\ terms' = <<>>
  /\ result' = NoResult
  /\ UNCHANGED <<build, l, made, x, b, kl, entry, fvars>>

Next ==
  \/ Setup
  \/ CallGeneral
  \/ CallQuadratic
  \/ Asserts
  \/ FirstRowFirst
  \/ FirstRowInterior
  \/ FirstRowLast
  \/ InteriorRowsEnter
  \/ InteriorRowFirst
  \/ InteriorRowInterior
  \/ InteriorRowLast
  \/ LastRowFirst
  \/ LastRowInterior
  \/ LastRowLast
  \/ Divide
  \/ Again

Spec == Init /\ [][Next]_vars

-----------------------------------------------------------------------------
(* Construction of fff values from raw doubles, the double abstracted to  *)
(* its class.                                                              *)

Classes == {"finite", "nan", "inf"}

\* impl From<f64> for fff: debug_assert!(v.is_finite()); fff(v)
FromF64 ==
  /\ fres = "ok"
  /\ Len(held) < MaxHeld
  /\ \E v \in Classes :
       IF build = "debug" /\ v # "finite"
         THEN /\ fres' = "panic"
              /\ held' = held
         ELSE /\ fres' = fres
              /\ held' = Append(held, [cls |-> v, by |-> "from"])
  /\ UNCHANGED <<build, kvars>>

\* pub struct fff(pub f64): the tuple constructor fff(v) stores v as it is
TupleCtor ==
  /\ fres = "ok"
  /\ Len(held) < MaxHeld
  /\ \E v \in Classes :
       /\ fres' = fres
       /\ held' = Append(held, [cls |-> v, by |-> "tuple"])
  /\ UNCHANGED <<build, kvars>>

NextFff ==
  \/ FromF64
  \/ TupleCtor

SpecFff == Init /\ [][NextFff]_vars

-----------------------------------------------------------------------------
(* Vocabulary of the properties *)

InCall == pc \notin {"start", "ready"}

\* The preconditions of the residual engine, on the arguments of the call.
Valid ==
  /\ InCall
  /\ Len(x) = kl.n
  /\ Len(b) = kl.n
  /\ kl.n = kl.n_x * kl.n_y
  /\ kl.n > 0

Col(k) == k % kl.n_x

Row(k) == k \div kl.n_x

\* Entry (r, c) of the dense reference matrix, zero-based.
LRef(r, c) ==
  IF c = r THEN kl.diag
  ELSE IF c = r - 1 /\ Col(r) # 0 THEN kl.tri_diag
  ELSE IF c = r + 1 /\ Col(r) # kl.n_x - 1 THEN kl.tri_diag
  ELSE IF c = r - kl.n_x /\ Row(r) # 0 THEN kl.side_diag
  ELSE IF c = r + kl.n_x /\ Row(r) # kl.n_y - 1 THEN kl.side_diag
  ELSE 0

RECURSIVE RowDot(_, _)
\* sum over columns 0..c of L[r][c] * x[c]
RowDot(r, c) ==
  IF c < 0 THEN 0 ELSE RowDot(r, c - 1) + LRef(r, c) * x[c + 1]

RECURSIVE RefSum(_)
\* sum over rows 0..r of ((L x)_r - b_r)^2
RefSum(r) ==
  IF r < 0 THEN 0
  ELSE LET d == RowDot(r, kl.n - 1) - b[r + 1]
       IN  RefSum(r - 1) + d * d

\* The call returned the number RefSum / n.
ResultIsRef ==
  /\ result.kind = "value"
  /\ result.den > 0
  /\ result.num * kl.n = RefSum(kl.n - 1) * result.den

\* The x indices the stencil of grid point c covers.
Neigh(c) ==
  {c} \cup (IF Col(c) > 0 THEN {c - 1} ELSE {})
      \cup (IF Col(c) < kl.n_x - 1 THEN {c + 1} ELSE {})
      \cup (IF Row(c) > 0 THEN {c - kl.n_x} ELSE {})
      \cup (IF Row(c) < kl.n_y - 1 THEN {c + kl.n_x} ELSE {})

ReadsOf(t, arr) ==
  {t.reads[j].idx : j \in {j \in 1..Len(t.reads) : t.reads[j].arr = arr}}

\* The centre of a logged term: the index of its b element.
Centre(t) == t.reads[1].idx

CentresOf(lines) ==
  {Centre(terms[k]) : k \in {k \in 1..Len(terms) : terms[k].line \in lines}}

\* The accesses of the term the kernel is about to accumulate.
Pending ==
  CASE pc = "L84"  -> Acc84
    [] pc = "L86"  -> Acc86(i)
    [] pc = "L88"  -> Acc88
    [] pc = "L91"  -> Acc91(outer_base)
    [] pc = "L93"  -> Acc93(outer_base, i)
    [] pc = "L95"  -> Acc95(outer_base)
    [] pc = "L98"  -> Acc98
    [] pc = "L100" -> Acc100(i)
    [] pc = "L102" -> Acc102
    [] OTHER       -> <<>>

\* Every access of the pending term computes its index without leaving the
\* usize range and lands inside its buffer.
PendingSafe ==
  \A k \in 1..Len(Pending) :
    /\ ~ChainOvf(Pending[k].ch)
    /\ InBounds(Pending[k].arr, ChainVal(Pending[k].ch))

\* Every read performed so far was inside its buffer.
LoggedSafe ==
  \A k \in 1..Len(terms) : \A j \in 1..Len(terms[k].reads) :
    InBounds(terms[k].reads[j].arr, terms[k].reads[j].idx)

\* The record the derivation formulas give for an a by c grid.
Expected(a, c) ==
  [ n_x       |-> a,
    n_y       |-> c,
    n         |-> a * c,
    diag      |-> (-2) * ((a + 1) * (a + 1) + (c + 1) * (c + 1)),
    tri_diag  |-> (a + 1) * (a + 1),
    side_diag |-> (c + 1) * (c + 1) ]

-----------------------------------------------------------------------------
(* Properties *)

\* C1: on every grid that meets the preconditions (n_x >= 1, n_y >= 1), the
\* call returns the dense-reference residual sum_i ((L x)_i - b_i)^2 / n.
C1_AllGridsMatchReference ==
  (Valid /\ pc \in Terminal) => ResultIsRef

\* C2: given the preconditions (grids with n_x = 1 or n_y = 1 included), no
\* step of the kernel reads x or b outside 0..n-1 and no index expression
\* underflows.
C2_NoOutOfBounds ==
  Valid => (PendingSafe /\ LoggedSafe /\ pc # "ub"
            /\ result # Panic("overflow"))

\* C3: a call whose arguments break a precondition (a buffer length that is
\* not n, n that is not n_x*n_y, or n = 0) ends in the assertion failure,
\* never returns a number, and fails before any element of x or b is read.
C3_ContractViolation ==
  (InCall /\ ~Valid) =>
     /\ terms = <<>>
     /\ result.kind \in {"none", "panic"}
     /\ pc # "asserts" => (pc = "panic" /\ result = Panic("assert"))

C3_Witness ==
  /\ pc = "panic"
  /\ result = Panic("assert")
  /\ kl.n = 0
  /\ Len(x) = 0
  /\ Len(b) = 0
  /\ terms = <<>>

\* C4: on every valid grid, the term of grid point i reads b only at i and
\* reads x at exactly the stencil of i: i, i-1 iff col > 0, i+1 iff
\* col < n_x-1, i-n_x iff row > 0, i+n_x iff row < n_y-1.
C4_ExactNeighbourSet ==
  Valid =>
    \A k \in 1..Len(terms) :
      /\ Len(terms[k].reads) >= 1
      /\ ReadsOf(terms[k], "b") = {Centre(terms[k])}
      /\ InBounds("b", Centre(terms[k]))
      /\ ReadsOf(terms[k], "x") = Neigh(Centre(terms[k]))

\* C5: on every valid grid with x all zero and b constant c, the call
\* returns exactly c^2 (0 when c = 0).
C5_ConstantRhs ==
  (Valid /\ pc \in Terminal /\ x = Const(kl.n, 0)) =>
     \A c \in BConsts :
       b = Const(kl.n, c) =>
         result = [kind |-> "value", num |-> c * c, den |-> 1]

\* C6: calculate_residual_squared_quadratic(n_xy, x, b) has the same outcome
\* as calculate_residual_squared(rectangular(n_xy, n_xy), x, b).
C6_SameOutcome ==
  (pc \in Terminal /\ called # {} /\ l = Expected(l.n_x, l.n_x)) =>
     result = first

\* C7: rectangular(n_x, n_y) yields n = n_x*n_y, tri_diag = (n_x+1)^2,
\* side_diag = (n_y+1)^2, diag = -2*((n_x+1)^2 + (n_y+1)^2) = -2*(tri_diag +
\* side_diag); quadratic(k) yields the record of rectangular(k, k).
C7_Derivation ==
  /\ made.by \in {"rectangular", "quadratic"} =>
       /\ l = Expected(made.a, made.c)
       /\ l.diag = (-2) * (l.tri_diag + l.side_diag)
  /\ made.by = "quadratic" => l = Expected(made.a, made.a)
  /\ (InCall /\ entry = "quadratic") => kl = Expected(l.n_x, l.n_x)

C7_Witness ==
  /\ made = [by |-> "rectangular", a |-> 2, c |-> 3]
  /\ l.n = 6
  /\ l.tri_diag = 9
  /\ l.side_diag = 16
  /\ l.diag = -50

\* C8: no fff value that exists holds NaN or an infinity: constructing one
\* from a non-finite double, by From<f64> or by fff(v), fails instead.
C8_AlwaysFinite ==
  \A k \in 1..Len(held) : held[k].cls = "finite"

\* C9: on every valid grid one run accumulates exactly n terms before the
\* division, the centres being 0, 1, ..., n-1 in this order, each once, and
\* the sum is divided by n.
C9_OneTermPerPoint ==
  Valid =>
    /\ \A k \in 1..Len(terms) :
         Len(terms[k].reads) >= 1 /\ Centre(terms[k]) = k - 1
    /\ pc \in Terminal =>
         /\ pc = "done"
         /\ Len(terms) = kl.n
         /\ result.kind = "value"
         /\ result.num * kl.n = r2 * result.den

=============================================================================
